---------------------------- MODULE Spec2Model ----------------------------
(***************************************************************************)
(* A model of bt_cycle.py: the 80-minute cycle win-rate report generator   *)
(* and its directory watcher (polling mode and watchdog mode).             *)
(*                                                                         *)
(* Numbers: P&L values are integers; a win rate is held in tenths of a     *)
(* percent (287 is 28.7), the overall win rate in hundredths.  The win     *)
(* rate is computed as the code computes it, in IEEE-754 double precision  *)
(* (round to nearest, ties to even), on bit sequences.                     *)
(***************************************************************************)
EXTENDS Integers, Sequences, FiniteSets, TLC

(***************************************************************************)
(* Strings: str.lower() and the substring test `sub in s`.                 *)
(***************************************************************************)
UpperChars == "ABCDEFGHIJKLMNOPQRSTUVWXYZ"
LowerChars == "abcdefghijklmnopqrstuvwxyz"

CharAt(s, i) == SubSeq(s, i, i)

LowerOf == [c \in {CharAt(UpperChars, i) : i \in 1..26} |->
               CharAt(LowerChars, CHOOSE i \in 1..26 : CharAt(UpperChars, i) = c)]

LowerChar(c) == IF c \in DOMAIN LowerOf THEN LowerOf[c] ELSE c

RECURSIVE LowerFrom(_, _)
LowerFrom(s, i) ==
    IF i > Len(s) THEN "" ELSE LowerChar(CharAt(s, i)) \o LowerFrom(s, i + 1)

\* str.lower()
Lower(s) == LowerFrom(s, 1)

\* `sub in s` for strings
Contains(sub, s) ==
    \E i \in 1..(Len(s) - Len(sub) + 1) : SubSeq(s, i, i + Len(sub) - 1) = sub

\* os.path.splitext(path)[1].lower(): from the last dot to the end, lowered
\* (the model's paths have no directory part and no leading dot)
SplitExt(path) ==
    IF \E i \in 1..Len(path) : CharAt(path, i) = "."
    THEN LET d == CHOOSE i \in 1..Len(path) :
                    /\ CharAt(path, i) = "."
                    /\ \A j \in (i+1)..Len(path) : CharAt(path, j) # "."
         IN  Lower(SubSeq(path, d, Len(path)))
    ELSE ""

\* os.path.splitext(filename)[0]
BaseName(path) ==
    IF \E i \in 1..Len(path) : CharAt(path, i) = "."
    THEN LET d == CHOOSE i \in 1..Len(path) :
                    /\ CharAt(path, i) = "."
                    /\ \A j \in (i+1)..Len(path) : CharAt(path, j) # "."
         IN  SubSeq(path, 1, d - 1)
    ELSE path

(***************************************************************************)
(* IEEE-754 double arithmetic on bit sequences (most significant bit       *)
(* first).  A double is [m |-> 53 bits with a leading 1, e |-> exponent],  *)
(* of value m * 2^e; zero has m = <<>>.  Every operation rounds to         *)
(* nearest, ties to even, as the hardware does.                            *)
(***************************************************************************)
MANT == 53
FRAC_LIMBS == 6

\* the number a bit sequence writes (used below 2^31 only)
BitsToInt(b) ==
    LET v[i \in 0..Len(b)] == IF i = 0 THEN 0 ELSE 2 * v[i - 1] + b[i]
    IN  v[Len(b)]

RECURSIVE IntToBits(_)
IntToBits(n) == IF n = 0 THEN <<>> ELSE IntToBits(n \div 2) \o <<n % 2>>

StripZeros(b) ==
    IF \A i \in 1..Len(b) : b[i] = 0 THEN <<>>
    ELSE LET f == CHOOSE i \in 1..Len(b) :
                      b[i] = 1 /\ \A j \in 1..(i - 1) : b[j] = 0
         IN  SubSeq(b, f, Len(b))

Zeros(n) == [i \in 1..n |-> 0]

\* b + 1; one bit longer when b is all ones
IncBits(b) ==
    IF \A i \in 1..Len(b) : b[i] = 1 THEN <<1>> \o Zeros(Len(b))
    ELSE LET z == CHOOSE i \in 1..Len(b) :
                      b[i] = 0 /\ \A j \in (i + 1)..Len(b) : b[j] = 1
         IN  [i \in 1..Len(b) |-> IF i < z THEN b[i] ELSE IF i = z THEN 1 ELSE 0]

\* Bit sequences are multiplied and divided in limbs of LIMB bits, so that
\* every intermediate number stays below 2^31.
LIMB == 11
BASE == 2048

Pow2(n) == <<1, 2, 4, 8, 16, 32, 64, 128, 256, 512, 1024, 2048>>[n + 1]

\* the bits of the limbs q[1..n], LIMB bits each
LimbBits(q, n) ==
    [p \in 1..(LIMB * n) |->
        (q[((p - 1) \div LIMB) + 1] \div Pow2(LIMB - 1 - ((p - 1) % LIMB))) % 2]

\* b * k for a small k (k <= 1000), limb by limb from the least significant
\* one, with a carry
MulSmall(b, k) ==
    LET n    == (Len(b) + LIMB - 1) \div LIMB
        bp   == Zeros(LIMB * n - Len(b)) \o b
        limb == SubSeq([i \in 1..n |->
                           BitsToInt(SubSeq(bp, LIMB * (i - 1) + 1, LIMB * i))], 1, n)
        \* the carry out of the j lowest limbs
        c[j \in 0..n] ==
            IF j = 0 THEN 0 ELSE (limb[n - j + 1] * k + c[j - 1]) \div BASE
        out  == SubSeq([i \in 1..n |-> (limb[i] * k + c[n - i]) % BASE], 1, n)
    IN  IntToBits(c[n]) \o LimbBits(out, n)

\* the double nearest to bits * 2^e, ties to even
RoundToDouble(bits, e) ==
    LET b == StripZeros(bits) IN
    IF b = <<>> THEN [m |-> <<>>, e |-> 0]
    ELSE IF Len(b) <= MANT
    THEN [m |-> b \o Zeros(MANT - Len(b)), e |-> e - (MANT - Len(b))]
    ELSE LET keep   == SubSeq(b, 1, MANT)
             rest   == SubSeq(b, MANT + 1, Len(b))
             sticky == \E i \in 2..Len(rest) : rest[i] = 1
             up     == rest[1] = 1 /\ (sticky \/ keep[MANT] = 1)
             m1     == IF up THEN IncBits(keep) ELSE keep
         IN  IF Len(m1) > MANT
             THEN [m |-> SubSeq(m1, 1, MANT), e |-> e + Len(rest) + 1]
             ELSE [m |-> m1, e |-> e + Len(rest)]

\* the FRAC_LIMBS * LIMB first bits of r / t after the binary point (r < t),
\* then one bit saying that the rest is not zero
DivBits(r, t) ==
    LET rem[i \in 0..FRAC_LIMBS] == IF i = 0 THEN r ELSE (rem[i - 1] * BASE) % t
        q == SubSeq([i \in 1..FRAC_LIMBS |-> (rem[i - 1] * BASE) \div t],
                    1, FRAC_LIMBS)
    IN  LimbBits(q, FRAC_LIMBS) \o <<IF rem[FRAC_LIMBS] = 0 THEN 0 ELSE 1>>

\* float(w) / float(t) for integers 0 <= w, 0 < t
DoubleDiv(w, t) ==
    RoundToDouble(IntToBits(w \div t) \o DivBits(w % t, t),
                  0 - (FRAC_LIMBS * LIMB + 1))

\* d * float(k) for a small integer k
DoubleMul(d, k) == RoundToDouble(MulSmall(d.m, k), d.e)

\* rint(d): the nearest integer, ties to even (d >= 0, below 2^31)
Rint(d) ==
    IF d.m = <<>> \/ d.e >= 0 THEN BitsToInt(d.m \o Zeros(IF d.e > 0 THEN d.e ELSE 0))
    ELSE IF 0 - d.e > MANT THEN 0
    ELSE LET n    == 0 - d.e
             int  == BitsToInt(SubSeq(d.m, 1, MANT - n))
             frac == SubSeq(d.m, MANT - n + 1, MANT)
             rest == \E i \in 2..Len(frac) : frac[i] = 1
             up   == frac[1] = 1 /\ (rest \/ int % 2 = 1)
         IN  IF up THEN int + 1 ELSE int

\* PowerOfTen(1) = 10, PowerOfTen(2) = 100
PowerOfTen(decimals) == IF decimals = 1 THEN 10 ELSE 100

\* round(x, decimals) of a numpy float64: rint(x * 10**decimals) / 10**decimals.
\* The result is returned as the integer rint(x * 10**decimals), that is in
\* units of 10**-decimals.
RoundDouble(d, decimals) == Rint(DoubleMul(d, PowerOfTen(decimals)))

\* round((wins / total) * 100, decimals), lines 175 and 199
WinRate(wins, total, decimals) ==
    RoundDouble(DoubleMul(DoubleDiv(wins, total), 100), decimals)

\* round(100 * wins / total, decimals) in exact arithmetic, ties to even,
\* in units of 10**-decimals
ExactRate(wins, total, decimals) ==
    LET n == 100 * PowerOfTen(decimals) * wins
        q == n \div total
        r == n % total
    IN  IF 2 * r > total \/ (2 * r = total /\ q % 2 = 1) THEN q + 1 ELSE q

(***************************************************************************)
(* Configuration, lines 37-52                                              *)
(***************************************************************************)
SESSION_START_HOUR == 7
CYCLE_DURATION == 80
SUPPORTED_EXTENSIONS == {".xlsx", ".xls", ".csv"}

CYCLE_TIMES ==
    <<"07:00 - 08:20", "08:20 - 09:40", "09:40 - 11:00", "11:00 - 12:20",
      "12:20 - 13:40", "13:40 - 15:00", "15:00 - 16:20">>

(***************************************************************************)
(* Data.  A DataFrame is [columns |-> sequence of header strings,          *)
(* rows |-> sequence of functions from header to cell].  A timestamp cell  *)
(* is [ok, hour, minute, date]; ok = FALSE is a cell pd.to_datetime cannot *)
(* parse.  A function that raises returns [err |-> message]; otherwise     *)
(* [err |-> NoError, val |-> result].                                      *)
(***************************************************************************)
NoError == "no error"
Raise(msg) == [err |-> msg]
Return(v) == [err |-> NoError, val |-> v]

\* the index of the first header that satisfies P, 0 (None) if there is none
FirstCol(columns, P(_)) ==
    IF \E i \in 1..Len(columns) : P(columns[i])
    THEN CHOOSE i \in 1..Len(columns) :
             P(columns[i]) /\ \A j \in 1..(i - 1) : ~P(columns[j])
    ELSE 0

\* lines 94-98
DatetimeCol(columns) ==
    LET P(col) == Contains("date", Lower(col)) \/ Contains("time", Lower(col))
    IN  FirstCol(columns, P)

\* lines 103-107
TypeCol(columns) ==
    LET P(col) == Lower(col) = "type"
    IN  FirstCol(columns, P)

\* lines 109-119
PnlCol(columns) ==
    LET P1(col) == /\ \/ Contains("p&l", Lower(col))
                      \/ Contains("pnl", Lower(col))
                      \/ Contains("profit", Lower(col))
                   /\ \/ Contains("usd", Lower(col))
                      \/ Contains("net", Lower(col))
        P2(col) == Contains("p&l", Lower(col)) \/ Contains("pnl", Lower(col))
    IN  IF FirstCol(columns, P1) # 0 THEN FirstCol(columns, P1)
        ELSE FirstCol(columns, P2)

\* lines 126-129: the rows that survive the trade-type filter
EntryRows(df) ==
    LET tc == TypeCol(df.columns)
        IsEntry(row) == Contains("entry", Lower(row[df.columns[tc]]))
    IN  IF tc # 0 THEN SelectSeq(df.rows, IsEntry) ELSE df.rows

\* a division that truncates toward zero
TruncCycleNum(hour, minute) ==
    LET total_mins == (hour - SESSION_START_HOUR) * 60 + minute
    IN  IF total_mins >= 0 THEN total_mins \div CYCLE_DURATION
        ELSE 0 - ((0 - total_mins) \div CYCLE_DURATION)

\* lines 138-139; // is floor division, as \div is
CycleNum(hour, minute) ==
    ((hour - SESSION_START_HOUR) * 60 + minute) \div CYCLE_DURATION

\* line 141
InRange(cycle_num) == cycle_num >= 0 /\ cycle_num <= 6

\* line 143
IsWin(pnl) == pnl > 0

\* lines 147-148
TradeType(x) == IF Contains("long", Lower(x)) THEN "Long" ELSE "Short"

\* lines 92-153
ProcessTrades(df) ==
    LET dc == DatetimeCol(df.columns)
        tc == TypeCol(df.columns)
        pc == PnlCol(df.columns)
    IN  IF dc = 0 THEN Raise("Could not find Date/Time column in data")
        ELSE IF pc = 0 THEN Raise("Could not find P&L column in data")
        ELSE IF \E i \in 1..Len(df.rows) : ~df.rows[i][df.columns[dc]].ok
        THEN Raise("Unknown datetime string format")
        ELSE
        LET typed == EntryRows(df)
            Derive(row) ==
                LET ts == row[df.columns[dc]]
                IN  [hour       |-> ts.hour,
                     minute     |-> ts.minute,
                     date       |-> ts.date,
                     total_mins |-> (ts.hour - SESSION_START_HOUR) * 60 + ts.minute,
                     cycle_num  |-> CycleNum(ts.hour, ts.minute),
                     is_win     |-> IsWin(row[df.columns[pc]]),
                     pnl        |-> row[df.columns[pc]],
                     trade_type |-> IF tc # 0 THEN TradeType(row[df.columns[tc]])
                                    ELSE "Unknown"]
            Kept(e) == InRange(e.cycle_num)
        IN  IF Len(typed) = 0 THEN Raise("No trade entries found in data")
            ELSE Return(SelectSeq([i \in 1..Len(typed) |-> Derive(typed[i])], Kept))

(***************************************************************************)
(* Aggregation                                                             *)
(***************************************************************************)
\* Series.sum() of the P&L of a sequence of entries
SumPnl(es) ==
    LET s[i \in 0..Len(es)] == IF i = 0 THEN 0 ELSE s[i - 1] + es[i].pnl
    IN  s[Len(es)]

\* int(Series['is_win'].sum())
CountWins(es) == Cardinality({i \in 1..Len(es) : es[i].is_win})

\* round(Series.mean(), 0): the nearest integer to sum / n, ties to even
RoundMean(sum, n) ==
    LET q == sum \div n
        r == sum % n
    IN  IF 2 * r > n \/ (2 * r = n /\ q % 2 = 1) THEN q + 1 ELSE q

\* 0 / 0 in numpy floats: not a number
NaN == 0 - 1

\* lines 169-184, one row
StatRow(entries, cycle) ==
    LET OfCycle(e) == e.cycle_num = cycle
        cycle_data == SelectSeq(entries, OfCycle)
        IsLong(e)  == e.trade_type = "Long"
        IsShort(e) == e.trade_type = "Short"
        long_data  == SelectSeq(cycle_data, IsLong)
        short_data == SelectSeq(cycle_data, IsShort)
    IN  [cycle        |-> cycle,
         time_range   |-> CYCLE_TIMES[cycle + 1],
         total_trades |-> Len(cycle_data),
         wins         |-> CountWins(cycle_data),
         losses       |-> Len(cycle_data) - CountWins(cycle_data),
         win_rate     |-> WinRate(CountWins(cycle_data), Len(cycle_data), 1),
         total_pnl    |-> SumPnl(cycle_data),
         avg_pnl      |-> RoundMean(SumPnl(cycle_data), Len(cycle_data)),
         long_trades  |-> Len(long_data),
         long_wr      |-> IF Len(long_data) > 0
                          THEN WinRate(CountWins(long_data), Len(long_data), 1)
                          ELSE 0,
         long_pnl     |-> IF Len(long_data) > 0 THEN SumPnl(long_data) ELSE 0,
         short_trades |-> Len(short_data),
         short_wr     |-> IF Len(short_data) > 0
                          THEN WinRate(CountWins(short_data), Len(short_data), 1)
                          ELSE 0,
         short_pnl    |-> IF Len(short_data) > 0 THEN SumPnl(short_data) ELSE 0]

\* a loop over range(1, 7)
CalculateCycleStatsFromOne(entries) ==
    LET HasTrades(cycle) == \E i \in 1..Len(entries) : entries[i].cycle_num = cycle
        cycles == SelectSeq([c \in 1..6 |-> c], HasTrades)
    IN  [i \in 1..Len(cycles) |-> StatRow(entries, cycles[i])]

\* lines 156-187: one row per cycle of range(7) that has a trade, in order
CalculateCycleStats(entries) ==
    LET HasTrades(cycle) == \E i \in 1..Len(entries) : entries[i].cycle_num = cycle
        cycles == SelectSeq([c \in 1..7 |-> c - 1], HasTrades)
    IN  [i \in 1..Len(cycles) |-> StatRow(entries, cycles[i])]

\* lines 190-213
CalculateOverallStats(entries) ==
    LET IsLong(e)    == e.trade_type = "Long"
        IsShort(e)   == e.trade_type = "Short"
        long_trades  == SelectSeq(entries, IsLong)
        short_trades == SelectSeq(entries, IsShort)
        dates        == {entries[i].date : i \in 1..Len(entries)}
    IN  [total_trades |-> Len(entries),
         total_wins   |-> CountWins(entries),
         total_losses |-> Len(entries) - CountWins(entries),
         overall_wr   |-> IF Len(entries) > 0
                          THEN WinRate(CountWins(entries), Len(entries), 2)
                          ELSE NaN,
         total_pnl    |-> SumPnl(entries),
         long_trades  |-> Len(long_trades),
         long_wins    |-> CountWins(long_trades),
         long_losses  |-> Len(long_trades) - CountWins(long_trades),
         long_wr      |-> IF Len(long_trades) > 0
                          THEN WinRate(CountWins(long_trades), Len(long_trades), 2)
                          ELSE 0,
         long_pnl     |-> IF Len(long_trades) > 0 THEN SumPnl(long_trades) ELSE 0,
         short_trades |-> Len(short_trades),
         short_wins   |-> CountWins(short_trades),
         short_losses |-> Len(short_trades) - CountWins(short_trades),
         short_wr     |-> IF Len(short_trades) > 0
                          THEN WinRate(CountWins(short_trades), Len(short_trades), 2)
                          ELSE 0,
         short_pnl    |-> IF Len(short_trades) > 0 THEN SumPnl(short_trades) ELSE 0,
         start_date   |-> IF dates = {} THEN NaN
                          ELSE CHOOSE d \in dates : \A x \in dates : d <= x,
         end_date     |-> IF dates = {} THEN NaN
                          ELSE CHOOSE d \in dates : \A x \in dates : d >= x]

(***************************************************************************)
(* Loading.  The content of a file is [readable, sheets]; a sheet is       *)
(* [name, columns, rows]; a delimited-text file has one sheet.             *)
(***************************************************************************)
EmptyProps == [k \in {} |-> ""]

SheetDf(sheet) == [columns |-> sheet.columns, rows |-> sheet.rows]

\* lines 62-73
SelectTradesSheet(sheets) ==
    LET IsTrade(i) == Contains("trade", Lower(sheets[i].name))
        IsList(i)  == Contains("list", Lower(sheets[i].name))
        idx        == 1..Len(sheets)
        most       == CHOOSE i \in idx :
                          /\ \A j \in idx :
                                 Len(sheets[j].columns) <= Len(sheets[i].columns)
                          /\ \A j \in 1..(i - 1) :
                                 Len(sheets[j].columns) < Len(sheets[i].columns)
    IN  IF \E i \in idx : IsTrade(i) /\ IsList(i)
        THEN CHOOSE i \in idx : /\ IsTrade(i) /\ IsList(i)
                                /\ \A j \in 1..(i - 1) : ~(IsTrade(j) /\ IsList(j))
        ELSE IF \E i \in idx : IsTrade(i)
        THEN CHOOSE i \in idx : IsTrade(i) /\ \A j \in (i + 1)..Len(sheets) : ~IsTrade(j)
        ELSE most

\* line 80: dict(zip(props_df['name'], props_df['value']))
ZipProps(rows) ==
    [k \in {rows[i]["name"] : i \in 1..Len(rows)} |->
        LET last == CHOOSE i \in 1..Len(rows) :
                        /\ rows[i]["name"] = k
                        /\ \A j \in (i + 1)..Len(rows) : rows[j]["name"] # k
        IN  rows[last]["value"]]

\* line 79: `'name' in props_df.columns and 'value' in props_df.columns`
HasColumn(columns, header) == \E i \in 1..Len(columns) : columns[i] = header

\* lines 75-81
ExtractProps(sheets) ==
    LET IsProps(i) == Contains("propert", Lower(sheets[i].name))
    IN  IF \E i \in 1..Len(sheets) : IsProps(i)
        THEN LET p == CHOOSE i \in 1..Len(sheets) :
                          IsProps(i) /\ \A j \in 1..(i - 1) : ~IsProps(j)
             IN  IF /\ HasColumn(sheets[p].columns, "name")
                    /\ HasColumn(sheets[p].columns, "value")
                 THEN ZipProps(sheets[p].rows)
                 ELSE EmptyProps
        ELSE EmptyProps

\* lines 55-89
LoadData(filepath, content) ==
    LET ext == SplitExt(filepath)
    IN  IF ext \in {".xlsx", ".xls"}
        THEN IF ~content.readable THEN Raise("Excel file format cannot be determined")
             ELSE Return([df    |-> SheetDf(content.sheets[SelectTradesSheet(content.sheets)]),
                          props |-> ExtractProps(content.sheets)])
        ELSE IF ext = ".csv"
        THEN IF ~content.readable THEN Raise("Error tokenizing data")
             ELSE Return([df |-> SheetDf(content.sheets[1]), props |-> EmptyProps])
        ELSE Raise("Unsupported file format")

(***************************************************************************)
(* Rendering.  The report is held as a record of its parts, in the order   *)
(* the text has them; a number is held as the number its format prints.    *)
(***************************************************************************)
\* lines 216-221
format_pnl(value) ==
    IF value >= 0 THEN [sign |-> "", dollars |-> value]
    ELSE [sign |-> "-", dollars |-> 0 - value]

\* lines 224-229
format_pnl_signed(value) ==
    IF value >= 0 THEN [sign |-> "+", dollars |-> value]
    ELSE [sign |-> "-", dollars |-> 0 - value]

\* props.get(key, default) if props else default
PropsGet(props, key, default) ==
    IF key \in DOMAIN props THEN props[key] ELSE default

\* DataFrame.sort_values(key): a stable sort of at most seven rows; Before(a, b)
\* says that a's key sorts strictly before b's
SortRows(rows, Before(_, _)) ==
    LET n == Len(rows)
        pos(i) == 1 + Cardinality({j \in 1..n :
                         \/ Before(rows[j], rows[i])
                         \/ (j < i /\ ~Before(rows[i], rows[j]))})
    IN  [k \in 1..n |-> rows[CHOOSE i \in 1..n : pos(i) = k]]

\* DataFrame.head(n)
HeadRows(rows, n) == SubSeq(rows, 1, IF Len(rows) < n THEN Len(rows) ELSE n)

\* '{:.0f}' of a rate held in tenths: the nearest integer, ties to even
Format0(tenths) ==
    LET q == tenths \div 10
        r == tenths % 10
    IN  IF r > 5 \/ (r = 5 /\ q % 2 = 1) THEN q + 1 ELSE q

\* a stamp to the second
SecondStamp(clock) == clock

\* datetime.now().strftime('%B %d, %Y at %H:%M'), line 397: the clock, in
\* seconds, to the minute
MinuteStamp(clock) == clock \div 60

\* lines 374-392, one row
ScheduleRow(row, priority) ==
    [status   |-> IF row.win_rate >= 550 THEN "[GO]"
                  ELSE IF row.win_rate >= 500 THEN "[CAUTION]" ELSE "[SKIP]",
     priority |-> priority,
     cycle    |-> row.cycle,
     time_range |-> row.time_range,
     win_rate |-> row.win_rate,
     action   |-> IF row.win_rate >= 550
                  THEN IF row.long_wr > row.short_wr + 100 THEN "Favor longs"
                       ELSE IF row.short_wr > row.long_wr + 100 THEN "Favor shorts"
                       ELSE "Trade both directions"
                  ELSE IF row.win_rate >= 500 THEN "Trade with caution"
                  ELSE "Do not trade"]

\* lines 232-401
GenerateReport(cycle_stats, overall_stats, props, clock) ==
    IF cycle_stats = <<>> THEN Raise("KeyError: 'win_rate'")
    ELSE
    LET WrDesc(a, b)  == a.win_rate > b.win_rate
        WrAsc(a, b)   == a.win_rate < b.win_rate
        PnlDesc(a, b) == a.total_pnl > b.total_pnl
        IsHigh(r)     == r.win_rate >= 550
        IsLow(r)      == r.win_rate < 500
        ranked        == SortRows(cycle_stats, WrDesc)
        ranked_pnl    == SortRows(cycle_stats, PnlDesc)
        high_wr       == SortRows(SelectSeq(cycle_stats, IsHigh), WrDesc)
        low_wr        == SortRows(SelectSeq(cycle_stats, IsLow), WrAsc)
        Rank(k)       == IF k = 1 THEN "[1st]" ELSE IF k = 2 THEN "[2nd]"
                         ELSE IF k = 3 THEN "[3rd]" ELSE k
    IN  Return(
        [overview |->
            [symbol    |-> PropsGet(props, "Symbol", "Unknown"),
             timeframe |-> PropsGet(props, "Timeframe", "Unknown"),
             period    |-> <<overall_stats.start_date, overall_stats.end_date>>,
             stop_loss |-> PropsGet(props, "Stop Loss (points)", "N/A"),
             take_profit |-> PropsGet(props, "Take Profit (points)", "N/A"),
             initial_capital |-> PropsGet(props, "Initial capital", "N/A")],
         overall |->
            [trades |-> <<overall_stats.total_trades, overall_stats.long_trades,
                          overall_stats.short_trades>>,
             wins   |-> <<overall_stats.total_wins, overall_stats.long_wins,
                          overall_stats.short_wins>>,
             losses |-> <<overall_stats.total_losses, overall_stats.long_losses,
                          overall_stats.short_losses>>,
             win_rate |-> <<overall_stats.overall_wr, overall_stats.long_wr,
                            overall_stats.short_wr>>,
             net_pnl |-> <<format_pnl(overall_stats.total_pnl),
                           format_pnl(overall_stats.long_pnl),
                           format_pnl(overall_stats.short_pnl)>>],
         summary |->
            [i \in 1..Len(cycle_stats) |->
                LET row == cycle_stats[i]
                IN  <<row.cycle, row.time_range, row.total_trades, row.wins,
                      row.losses, row.win_rate, format_pnl(row.total_pnl),
                      format_pnl(row.avg_pnl)>>],
         by_win_rate |->
            [i \in 1..Len(ranked) |->
                <<Rank(i), ranked[i].cycle, ranked[i].time_range,
                  ranked[i].win_rate, ranked[i].total_trades,
                  format_pnl_signed(ranked[i].total_pnl)>>],
         by_pnl |->
            [i \in 1..Len(ranked_pnl) |->
                <<Rank(i), ranked_pnl[i].cycle, ranked_pnl[i].time_range,
                  format_pnl_signed(ranked_pnl[i].total_pnl),
                  ranked_pnl[i].win_rate>>],
         long_short |->
            [i \in 1..Len(cycle_stats) |->
                LET row == cycle_stats[i]
                IN  <<row.cycle, row.time_range, row.long_trades, row.long_wr,
                      format_pnl(row.long_pnl), row.short_trades, row.short_wr,
                      format_pnl(row.short_pnl)>>],
         high |->
            [i \in 1..Len(HeadRows(high_wr, 3)) |->
                LET row == high_wr[i]
                IN  <<row.cycle, row.time_range, row.win_rate,
                      IF row.long_trades > 0
                      THEN <<"Longs", Format0(row.long_wr)>> ELSE <<"No longs">>,
                      IF row.short_trades > 0
                      THEN <<"Shorts", Format0(row.short_wr)>> ELSE <<"No shorts">>,
                      format_pnl_signed(row.total_pnl)>>],
         low |->
            [i \in 1..Len(HeadRows(low_wr, 3)) |->
                LET row == low_wr[i]
                IN  <<row.cycle, row.time_range, row.win_rate,
                      format_pnl(row.total_pnl)>>],
         recommendations |->
            <<<<ranked[1].cycle, ranked[1].time_range, ranked[1].win_rate>>,
              <<ranked[Len(ranked)].cycle, ranked[Len(ranked)].time_range,
                ranked[Len(ranked)].win_rate>>,
              <<ranked_pnl[1].cycle, ranked_pnl[1].time_range,
                format_pnl_signed(ranked_pnl[1].total_pnl)>>,
              <<ranked_pnl[Len(ranked_pnl)].cycle,
                ranked_pnl[Len(ranked_pnl)].time_range,
                format_pnl(ranked_pnl[Len(ranked_pnl)].total_pnl)>>,
              <<IF overall_stats.long_wr > overall_stats.short_wr
                THEN "Longs outperform shorts" ELSE "Shorts outperform longs",
                overall_stats.long_wr, overall_stats.short_wr>>>>,
         schedule |-> [i \in 1..Len(ranked) |-> ScheduleRow(ranked[i], i)],
         generated |-> MinuteStamp(clock)])

\* line 408
OutputFile(filepath) == BaseName(filepath) \o "_cycle_report.md"

(***************************************************************************)
(* State                                                                   *)
(***************************************************************************)
VARIABLES
    mode,             \* "polling" (USE_WATCHDOG false), "watchdog", or "direct":
                      \* process_file called on one file, no watcher
    files,            \* the watch directory: path -> [exists, size, content]
    changes,          \* how many times the directory was changed from outside
    outputs,          \* the output directory: file name -> NoFile or its text
    processed_files,  \* the already-seen set
    existing,         \* history: the supported files found at startup
    pc,               \* where the scanning / event-handling thread is
    main,             \* where main's thread is
    listing,          \* polling: the names of os.listdir still to visit
    filepath,         \* the file at hand
    size1, size2,     \* the two size samples
    events,           \* watchdog: the events not yet dispatched
    interrupted,      \* a KeyboardInterrupt has been delivered
    clock,            \* the wall clock, in seconds
    df, props, entries, cycle_stats, overall_stats, report,  \* process_file's locals
    report2,          \* the text of a second generate_report call
    calls             \* history: the process_file calls so far, each
                      \* [path, sizes sampled before it, the clock when
                      \* generate_report ran, wrote, result]

vars == <<mode, files, changes, existing, outputs, processed_files, pc, main, listing, filepath,
          size1, size2, events, interrupted, clock, df, props, entries, cycle_stats,
          overall_stats, report, report2, calls>>

locals == <<df, props, entries, cycle_stats, overall_stats, report>>

NoFile == [exists |-> FALSE, text |-> <<>>]
FileOf(text) == [exists |-> TRUE, text |-> text]
\* a local that is not bound; NoRows for the locals that hold rows
NotSet == [bound |-> FALSE]
NoRows == <<NotSet>>
NoSizes == <<>>
NotRendered == 0 - 1
\* what a call of process_file has returned, if it has
Running == "running"
True == "True"
False == "False"

USE_WATCHDOG == mode = "watchdog"

ClearLocals ==
    /\ df' = NotSet /\ props' = NotSet /\ entries' = NoRows
    /\ cycle_stats' = NoRows /\ overall_stats' = NotSet /\ report' = NotSet

(***************************************************************************)
(* process_file, lines 404-443, one step per statement that can raise      *)
(***************************************************************************)
\* a return that ends the thread
ThreadEnds == "exited"

\* where process_file returns to: lines 543, 481/499, or the direct caller
ReturnPc == IF mode = "polling" THEN "iter"
            ELSE IF mode = "watchdog" THEN "idle" ELSE "returned"

\* a process_file that returns True wherever it returns
AlwaysTrue(r) == calls' = [calls EXCEPT ![Len(calls)].result = True]

\* lines 439 and 443: return True, return False
SetResult(r) == calls' = [calls EXCEPT ![Len(calls)].result = r]

\* lines 441-443: except Exception: print, return False
PfFail ==
    /\ SetResult(False)
    /\ pc' = ReturnPc
    /\ ClearLocals

\* the call itself: lines 406-412
PfCall(sizes) ==
    /\ pc' = "pf_load"
    /\ calls' = Append(calls, [path |-> filepath, sizes |-> sizes,
                               rendered |-> NotRendered,
                               wrote |-> FALSE, result |-> Running])

\* line 415
PfLoad ==
    /\ pc = "pf_load"
    /\ LET r == IF files[filepath].exists
                THEN LoadData(filepath, files[filepath].content)
                ELSE Raise("No such file or directory")
       IN  IF r.err # NoError
           THEN PfFail
           ELSE /\ df' = r.val.df
                /\ props' = r.val.props
                /\ pc' = "pf_trades"
                /\ UNCHANGED <<entries, cycle_stats, overall_stats, report, calls>>
    /\ UNCHANGED <<mode, existing, changes, files, outputs, processed_files, main, listing, filepath,
                   size1, size2, events, interrupted, clock, report2>>

\* line 418
PfTrades ==
    /\ pc = "pf_trades"
    /\ LET r == ProcessTrades(df)
       IN  IF r.err # NoError
           THEN PfFail
           ELSE /\ entries' = r.val
                /\ pc' = "pf_stats"
                /\ UNCHANGED <<df, props, cycle_stats, overall_stats, report, calls>>
    /\ UNCHANGED <<mode, existing, changes, files, outputs, processed_files, main, listing, filepath,
                   size1, size2, events, interrupted, clock, report2>>

\* line 421
PfStats ==
    /\ pc = "pf_stats"
    /\ cycle_stats' = CalculateCycleStats(entries)
    /\ pc' = "pf_overall"
    /\ UNCHANGED <<mode, existing, changes, files, outputs, processed_files, main, listing, filepath,
                   size1, size2, events, interrupted, clock, df, props, entries,
                   overall_stats, report, report2, calls>>

\* line 424
PfOverall ==
    /\ pc = "pf_overall"
    /\ overall_stats' = CalculateOverallStats(entries)
    /\ pc' = "pf_report"
    /\ UNCHANGED <<mode, existing, changes, files, outputs, processed_files, main, listing, filepath,
                   size1, size2, events, interrupted, clock, df, props, entries,
                   cycle_stats, report, report2, calls>>

\* line 426
PfReport ==
    /\ pc = "pf_report"
    /\ LET r == GenerateReport(cycle_stats, overall_stats, props, clock)
       IN  IF r.err # NoError
           THEN PfFail
           ELSE /\ report' = r.val
                /\ calls' = [calls EXCEPT ![Len(calls)].rendered = clock]
                /\ pc' = "pf_open"
                /\ UNCHANGED <<df, props, entries, cycle_stats, overall_stats>>
    /\ UNCHANGED <<mode, existing, changes, files, outputs, processed_files, main, listing, filepath,
                   size1, size2, events, interrupted, clock, report2>>

\* line 428: open(output_file, 'w') creates the file or empties it
PfOpen ==
    /\ pc = "pf_open"
    /\ outputs' = [outputs EXCEPT ![OutputFile(filepath)] = FileOf(<<>>)]
    /\ calls' = [calls EXCEPT ![Len(calls)].wrote = TRUE]
    /\ pc' = "pf_write"
    /\ UNCHANGED <<mode, existing, changes, files, processed_files, main, listing, filepath, size1, size2,
                   events, interrupted, clock, df, props, entries, cycle_stats,
                   overall_stats, report, report2>>

\* lines 429-430: f.write(report) and the close that ends the with block
PfWrite ==
    /\ pc = "pf_write"
    /\ outputs' = [outputs EXCEPT ![OutputFile(filepath)] = FileOf(<<report>>)]
    /\ pc' = "pf_summary"
    /\ UNCHANGED <<mode, existing, changes, files, processed_files, main, listing, filepath, size1, size2,
                   events, interrupted, clock, df, props, entries, cycle_stats,
                   overall_stats, report, report2, calls>>

\* lines 431-439: the quick summary (cycle_stats has a row here) and return True
PfSummary ==
    /\ pc = "pf_summary"
    /\ SetResult(True)
    /\ pc' = ReturnPc
    /\ IF mode = "direct"
       THEN UNCHANGED locals
       ELSE ClearLocals
    /\ UNCHANGED <<mode, existing, changes, files, outputs, processed_files, main, listing, filepath,
                   size1, size2, events, interrupted, clock, report2>>

InProcessFile ==
    pc \in {"pf_load", "pf_trades", "pf_stats", "pf_overall", "pf_report",
            "pf_open", "pf_write", "pf_summary"}

(***************************************************************************)
(* The watch directory and what happens to it from outside                 *)
(***************************************************************************)
MaxSize == 2
MaxChanges == 3
MaxEvents == 1

Absent == [exists |-> FALSE, size |-> 0, content |-> [readable |-> FALSE, sheets |-> <<>>]]

Supported(path) == SplitExt(path) \in SUPPORTED_EXTENSIONS

\* os.listdir(watch_dir)
ListDir == {p \in DOMAIN files : files[p].exists}

\* watchdog hands the handler an event for every change; polling sees none
Emit(kind, path) ==
    IF mode = "watchdog" /\ main # "startup"
    THEN events' = Append(events, [kind |-> kind, src_path |-> path])
    ELSE UNCHANGED events

CanEmit == mode # "watchdog" \/ Len(events) < MaxEvents

\* one more change of the directory
Changed == changes < MaxChanges /\ changes' = changes + 1

Watching == mode \in {"polling", "watchdog"} /\ main # "goodbye"

\* a new file appears, its first bytes written
CreateFile(path, content) ==
    /\ Changed
    /\ Watching /\ CanEmit
    /\ ~files[path].exists
    /\ files' = [files EXCEPT ![path] = [exists |-> TRUE, size |-> 1, content |-> content]]
    /\ Emit("created", path)
    /\ UNCHANGED <<mode, existing, outputs, processed_files, pc, main, listing, filepath, size1, size2,
                   interrupted, clock, locals, report2, calls>>

\* the writer of a file appends to it
GrowFile(path) ==
    /\ Changed
    /\ Watching /\ CanEmit
    /\ files[path].exists
    /\ files[path].size < MaxSize
    /\ files' = [files EXCEPT ![path].size = @ + 1]
    /\ Emit("modified", path)
    /\ UNCHANGED <<mode, existing, outputs, processed_files, pc, main, listing, filepath, size1, size2,
                   interrupted, clock, locals, report2, calls>>

\* a file is removed
DeleteFile(path) ==
    /\ Changed
    /\ Watching
    /\ files[path].exists
    /\ files' = [files EXCEPT ![path] = Absent]
    /\ UNCHANGED <<mode, existing, outputs, processed_files, pc, main, listing, filepath, size1, size2,
                   events, interrupted, clock, locals, report2, calls>>

(***************************************************************************)
(* watch_with_polling, lines 502-551                                       *)
(***************************************************************************)
\* lines 504-514 (and 585-595 of main): the files already there are marked seen
ExistingFiles == {p \in ListDir : Supported(p)}

\* lines 504-514
PollStartup ==
    /\ mode = "polling" /\ pc = "startup"
    /\ existing' = ExistingFiles
    /\ processed_files' = ExistingFiles
    /\ pc' = "scan"
    /\ UNCHANGED <<mode, changes, files, outputs, main, listing, filepath, size1, size2, events,
                   interrupted, clock, locals, report2, calls>>

\* line 518
PollScan ==
    /\ mode = "polling" /\ pc = "scan"
    /\ listing' = ListDir
    /\ pc' = "iter"
    /\ UNCHANGED <<mode, existing, changes, files, outputs, processed_files, main, filepath, size1, size2,
                   events, interrupted, clock, locals, report2, calls>>

\* lines 518-529: the next name of the listing, in whatever order listdir gave
PollIter ==
    /\ mode = "polling" /\ pc = "iter"
    /\ IF listing = {}
       THEN /\ pc' = "sleep2"
            /\ UNCHANGED <<listing, filepath>>
       ELSE \E f \in listing :
               /\ listing' = listing \ {f}
               /\ IF /\ files[f].exists            \* os.path.isfile
                     /\ Supported(f)
                     /\ f \notin processed_files
                  THEN filepath' = f /\ pc' = "sleep1"
                  ELSE UNCHANGED filepath /\ pc' = "iter"
    /\ UNCHANGED <<mode, existing, changes, files, outputs, processed_files, main, size1, size2, events,
                   interrupted, clock, locals, report2, calls>>

\* line 532
PollSleep1 ==
    /\ mode = "polling" /\ pc = "sleep1"
    /\ pc' = "size1"
    /\ UNCHANGED <<mode, existing, changes, files, outputs, processed_files, main, listing, filepath,
                   size1, size2, events, interrupted, clock, locals, report2, calls>>

\* the samples are dead once the iteration is over or process_file is called
ForgetSizes == size1' = 0 /\ size2' = 0

\* lines 534-535, and 539-540 when the file is gone: the first sample, then
\* the sleep of 0.5 s
PollSize1 ==
    /\ mode = "polling" /\ pc = "size1"
    /\ IF files[filepath].exists
       THEN size1' = files[filepath].size /\ pc' = "size2"
       ELSE UNCHANGED size1 /\ pc' = "iter"
    /\ UNCHANGED <<mode, existing, changes, files, outputs, processed_files, main, listing, filepath,
                   size2, events, interrupted, clock, locals, report2, calls>>

\* a watcher that marks nothing
LeaveUnseen == UNCHANGED processed_files

\* lines 542-543, 480 and 498: processed_files.add(filepath)
MarkSeen == processed_files' = processed_files \cup {filepath}

\* a scan that gives the file up when it is still being written
GiveUp == pc' = "iter" /\ MarkSeen /\ UNCHANGED calls

\* lines 537-538: `continue`, the file is left for a later scan
StillWriting == pc' = "iter" /\ UNCHANGED <<processed_files, calls>>

\* lines 536-543
PollSize2 ==
    /\ mode = "polling" /\ pc = "size2"
    /\ ForgetSizes
    /\ IF ~files[filepath].exists
       THEN pc' = "iter" /\ UNCHANGED <<processed_files, calls>>           \* 539-540
       ELSE IF size1 # files[filepath].size
       THEN StillWriting
       ELSE MarkSeen /\ PfCall(<<size1, files[filepath].size>>)
    /\ UNCHANGED <<mode, existing, changes, files, outputs, main, listing, filepath, events,
                   interrupted, clock, locals, report2>>

\* line 545
PollSleep2 ==
    /\ mode = "polling" /\ pc = "sleep2"
    /\ pc' = "scan"
    /\ UNCHANGED <<mode, existing, changes, files, outputs, processed_files, main, listing, filepath,
                   size1, size2, events, interrupted, clock, locals, report2, calls>>

(***************************************************************************)
(* NewFileHandler, lines 448-499: the observer's thread dispatches one     *)
(* event at a time                                                         *)
(***************************************************************************)
\* handlers that do not look at the already-seen set
SkipsUnsupported(event) == ~Supported(event.src_path)

\* lines 454-465 and 485-495: the checks both handlers start with
Skips(event) ==
    \/ ~Supported(event.src_path)
    \/ event.src_path \in processed_files

\* the observer takes the next event and calls on_created or on_modified
Dispatch ==
    /\ mode = "watchdog" /\ pc = "idle" /\ main = "watching"
    /\ events # <<>>
    /\ events' = Tail(events)
    /\ LET event == Head(events)
       IN  IF Skips(event)
           THEN UNCHANGED <<pc, filepath>>
           ELSE /\ filepath' = event.src_path
                \* the sleep of line 468 or of line 497
                /\ pc' = IF event.kind = "created" THEN "c_size1" ELSE "m_sleep1"
    /\ UNCHANGED <<mode, existing, changes, files, outputs, processed_files, main, listing, size1, size2,
                   interrupted, clock, locals, report2, calls>>

\* lines 472-473, and 477-478 when the file is gone: the first sample, then
\* the sleep of 0.5 s
CreatedSize1 ==
    /\ pc = "c_size1"
    /\ IF files[filepath].exists
       THEN size1' = files[filepath].size /\ pc' = "c_size2"
       ELSE UNCHANGED size1 /\ pc' = "idle"
    /\ UNCHANGED <<mode, existing, changes, files, outputs, processed_files, main, listing, filepath,
                   size2, events, interrupted, clock, locals, report2, calls>>

\* lines 474-478: when the samples differ the handler sleeps 2 s (line 476)
\* and then goes on to line 480 all the same
CreatedSize2 ==
    /\ pc = "c_size2"
    /\ IF ~files[filepath].exists
       THEN pc' = "idle" /\ ForgetSizes                                \* 477-478
       ELSE /\ size2' = files[filepath].size
            /\ UNCHANGED size1
            /\ pc' = IF size1 # size2' THEN "c_sleep2" ELSE "c_add"
    /\ UNCHANGED <<mode, existing, changes, files, outputs, processed_files, main, listing, filepath,
                   events, interrupted, clock, locals, report2, calls>>

\* lines 480-481, reached straight from line 474 or after the sleep of line 476
CreatedProcess ==
    /\ pc \in {"c_add", "c_sleep2"}
    /\ MarkSeen
    /\ PfCall(<<size1, size2>>)
    /\ ForgetSizes
    /\ UNCHANGED <<mode, existing, changes, files, outputs, main, listing, filepath, events,
                   interrupted, clock, locals, report2>>

\* lines 497-499: on_modified sleeps 1 s and takes no size sample
ModifiedProcess ==
    /\ pc = "m_sleep1"
    /\ MarkSeen
    /\ PfCall(NoSizes)
    /\ UNCHANGED <<mode, existing, changes, files, outputs, main, listing, filepath, size1, size2, events,
                   interrupted, clock, locals, report2>>

(***************************************************************************)
(* main, lines 583-616, and the interrupt                                  *)
(***************************************************************************)
\* lines 585-600
WatchdogStartup ==
    /\ mode = "watchdog" /\ main = "startup"
    /\ existing' = ExistingFiles
    /\ processed_files' = ExistingFiles
    /\ main' = "watching"
    /\ pc' = "idle"
    /\ UNCHANGED <<mode, changes, files, outputs, listing, filepath, size1, size2, events,
                   interrupted, clock, locals, report2, calls>>

\* the positions of lines 534-538, inside the try whose handler is the bare
\* `except: continue` of lines 539-540
InSizeTry == pc \in {"size1", "size2"}

\* A KeyboardInterrupt reaches the polling thread (it is main's thread).
\* Inside the size try, the bare except takes it and the loop goes on with the
\* next name; anywhere else no handler takes it before main's, lines 613-616.
PollInterrupt ==
    /\ mode = "polling" /\ main = "watching" /\ ~interrupted
    /\ interrupted' = TRUE
    /\ IF InSizeTry
       THEN pc' = "iter" /\ UNCHANGED <<main, locals>>
       ELSE pc' = "exited" /\ main' = "goodbye" /\ ClearLocals
    /\ ForgetSizes
    /\ UNCHANGED <<mode, existing, changes, files, outputs, processed_files, listing, filepath,
                   events, clock, report2, calls>>

\* A KeyboardInterrupt reaches main's thread in lines 603-604: observer.stop()
WatchdogInterrupt ==
    /\ mode = "watchdog" /\ main = "watching" /\ ~interrupted
    /\ interrupted' = TRUE
    /\ main' = "stopping"
    /\ UNCHANGED <<mode, existing, changes, files, outputs, processed_files, pc, listing, filepath,
                   size1, size2, events, clock, locals, report2, calls>>

\* line 608 and 616: observer.join() returns once the handler at work is done
WatchdogJoin ==
    /\ mode = "watchdog" /\ main = "stopping" /\ pc = "idle"
    /\ pc' = "exited"
    /\ main' = "goodbye"
    /\ UNCHANGED <<mode, existing, changes, files, outputs, processed_files, listing, filepath, size1, size2,
                   events, interrupted, clock, locals, report2, calls>>

(***************************************************************************)
(* A second generate_report call on what the first was given, and the      *)
(* clock                                                                   *)
(***************************************************************************)
MaxClock == 90

\* the wall clock advances (it is read at line 397 only)
Tick ==
    /\ mode = "direct" /\ pc \in {"pf_report", "returned"}
    /\ clock + 30 <= MaxClock
    /\ clock' = clock + 30
    /\ UNCHANGED <<mode, existing, changes, files, outputs, processed_files, pc, main, listing, filepath,
                   size1, size2, events, interrupted, locals, report2, calls>>

\* generate_report(cycle_stats, overall_stats, props) once more
Rerender ==
    /\ mode = "direct" /\ pc = "returned"
    /\ calls[Len(calls)].result = True
    /\ report2' = GenerateReport(cycle_stats, overall_stats, props, clock).val
    /\ pc' = "rendered_twice"
    /\ UNCHANGED <<mode, existing, changes, files, outputs, processed_files, main, listing, filepath,
                   size1, size2, events, interrupted, clock, locals, calls>>

(***************************************************************************)
(* Inputs                                                                  *)
(***************************************************************************)
Stamp(hour, minute) == [ok |-> TRUE, hour |-> hour, minute |-> minute, date |-> 1]
StampOn(date, hour, minute) ==
    [ok |-> TRUE, hour |-> hour, minute |-> minute, date |-> date]
BadStamp == [ok |-> FALSE, hour |-> 0, minute |-> 0, date |-> 0]

TradeColumns == <<"Date/Time", "Type", "Profit USD">>
UntypedColumns == <<"Date/Time", "Profit USD">>

TradeRow(stamp, type, pnl) ==
    [c \in {"Date/Time", "Type", "Profit USD"} |->
        IF c = "Date/Time" THEN stamp ELSE IF c = "Type" THEN type ELSE pnl]

Csv(columns, rows) ==
    [readable |-> TRUE,
     sheets |-> <<[name |-> "", columns |-> columns, rows |-> rows]>>]

Unreadable == [readable |-> FALSE, sheets |-> <<>>]

\* the sequences of at most n elements of S
RECURSIVE SeqsUpTo(_, _)
SeqsUpTo(S, n) ==
    IF n = 0 THEN {<<>>}
    ELSE LET shorter == SeqsUpTo(S, n - 1)
         IN  shorter \cup {Append(q, x) : q \in shorter, x \in S}

(***************************************************************************)
(* process_file called on one file (mode "direct")                         *)
(***************************************************************************)
InitDirectOver(path, content, old) ==
    /\ mode = "direct"
    /\ changes = 0
    /\ files = [p \in {path} |-> [exists |-> TRUE, size |-> 1, content |-> content]]
    /\ outputs = [o \in {OutputFile(path)} |-> old]
    /\ processed_files = {}
    /\ existing = {}
    /\ pc = "pf_load"
    /\ main = "watching"
    /\ listing = {}
    /\ filepath = path
    /\ size1 = 0 /\ size2 = 0
    /\ events = <<>>
    /\ interrupted = FALSE
    /\ clock = 0
    /\ df = NotSet /\ props = NotSet /\ entries = NoRows
    /\ cycle_stats = NoRows /\ overall_stats = NotSet /\ report = NotSet
    /\ report2 = NotSet
    /\ calls = <<[path |-> path, sizes |-> NoSizes, rendered |-> NotRendered,
                  wrote |-> FALSE, result |-> Running]>>

InitDirect(path, content) == InitDirectOver(path, content, NoFile)

NextPipeline ==
    \/ PfLoad \/ PfTrades \/ PfStats \/ PfOverall \/ PfReport
    \/ PfOpen \/ PfWrite \/ PfSummary

\* process_file has returned True and its locals are still at hand
Succeeded ==
    /\ pc \in {"returned", "rendered_twice"}
    /\ calls[Len(calls)].result = True

\* cycle_stats has been computed (line 421 is passed)
StatsReady ==
    \/ pc \in {"pf_overall", "pf_report", "pf_open", "pf_write", "pf_summary"}
    \/ Succeeded

\* Tables of at most MaxRows rows: entry and exit rows, wins, losses and flat
\* trades, at the edges of the session and of a cycle; with and without a
\* trade-type column.
MaxRows == 2

StatsTimes == {<<6, 59>>, <<8, 19>>, <<8, 20>>, <<16, 20>>}
StatsTypes == {"Entry long", "Exit long"}
StatsPnls == {0, 100}

StatsRows ==
    {TradeRow(Stamp(t[1], t[2]), ty, pnl) :
        t \in StatsTimes, ty \in StatsTypes, pnl \in StatsPnls}

InitStats ==
    \E rows \in SeqsUpTo(StatsRows, MaxRows), columns \in {TradeColumns, UntypedColumns} :
        InitDirect("t.csv", Csv(columns, rows))

SpecStats == InitStats /\ [][NextPipeline]_vars

(***************************************************************************)
(* C1: every entry row that survives the trade-type filter is accounted    *)
(* for exactly once.  Once calculate_cycle_stats has run, the sum of       *)
(* total_trades over its rows plus the number of type-filtered rows whose  *)
(* cycle index is below 0 or above 6 equals the number of type-filtered    *)
(* rows; the rows of the result are for distinct cycles, in increasing     *)
(* order, and each counts exactly the type-filtered rows of its cycle.     *)
(***************************************************************************)
RowCycle(row) ==
    LET ts == row[df.columns[DatetimeCol(df.columns)]]
    IN  ((ts.hour - 7) * 60 + ts.minute) \div 80

SumTotalTrades(stats) ==
    LET t[i \in 0..Len(stats)] == IF i = 0 THEN 0 ELSE t[i - 1] + stats[i].total_trades
    IN  t[Len(stats)]

DroppedOutOfRange ==
    Cardinality({i \in 1..Len(EntryRows(df)) :
        RowCycle(EntryRows(df)[i]) < 0 \/ RowCycle(EntryRows(df)[i]) > 6})

C1_EveryEntryCountedOnce ==
    StatsReady =>
        /\ SumTotalTrades(cycle_stats) + DroppedOutOfRange = Len(EntryRows(df))
        /\ \A i, j \in 1..Len(cycle_stats) :
               i < j => cycle_stats[i].cycle < cycle_stats[j].cycle
        /\ \A i \in 1..Len(cycle_stats) :
               cycle_stats[i].total_trades =
                   Cardinality({k \in 1..Len(EntryRows(df)) :
                       RowCycle(EntryRows(df)[k]) = cycle_stats[i].cycle})

\* a table with an exit row filtered out, a row dropped as out of range and
\* a row counted
C1_Witness ==
    /\ StatsReady
    /\ DroppedOutOfRange = 1
    /\ Len(cycle_stats) = 1
    /\ Len(EntryRows(df)) = 2


(***************************************************************************)
(* C2: process_trades assigns the cycle index floor(((hour-7)*60+minute)   *)
(* / 80) and keeps the row only if the index is in [0,6].  For a one-row   *)
(* table with any hour and minute: the row is kept exactly when its time   *)
(* is from 07:00 to 16:19; a kept row's index c is in 0..6 and satisfies   *)
(* 80c <= (hour-7)*60+minute < 80(c+1); 08:20 is kept in cycle 1; 06:59    *)
(* and 16:20 are dropped.                                                  *)
(***************************************************************************)
InitCycle ==
    \E hour \in 0..23, minute \in 0..59 :
        InitDirect("t.csv",
            Csv(TradeColumns, <<TradeRow(Stamp(hour, minute), "Entry long", 100)>>))

SpecCycle == InitCycle /\ [][NextPipeline]_vars

\* entries has been computed (line 418 is passed)
EntriesReady ==
    \/ pc \in {"pf_stats", "pf_overall", "pf_report", "pf_open", "pf_write",
               "pf_summary"}
    \/ Succeeded

FirstStamp == df.rows[1]["Date/Time"]

C2_CycleIndex ==
    EntriesReady =>
        LET h == FirstStamp.hour
            m == FirstStamp.minute
            kept == Len(entries) = 1
        IN  /\ kept <=> (7 * 60 <= h * 60 + m /\ h * 60 + m <= 16 * 60 + 19)
            /\ \A i \in 1..Len(entries) :
                   /\ entries[i].cycle_num \in 0..6
                   /\ 80 * entries[i].cycle_num <= (h - 7) * 60 + m
                   /\ (h - 7) * 60 + m < 80 * (entries[i].cycle_num + 1)
            /\ (h = 8 /\ m = 20) => (kept /\ entries[1].cycle_num = 1)
            /\ (h = 6 /\ m = 59) => ~kept
            /\ (h = 16 /\ m = 20) => ~kept

\* the trade at exactly 08:20 has been given its cycle
C2_Witness ==
    /\ EntriesReady
    /\ FirstStamp.hour = 8 /\ FirstStamp.minute = 20
    /\ Len(entries) = 1
    /\ entries[1].cycle_num = 1

(***************************************************************************)
(* C3: every row of calculate_cycle_stats has wins + losses = total_trades *)
(* and win_rate = round(100 * wins / total_trades, 1), a win being a P&L   *)
(* strictly above zero.  Checked on tables of up to MaxTrades entries, all *)
(* in one cycle, of which any number are wins and the others flat.         *)
(***************************************************************************)
MaxTrades == 80

InitRate ==
    \E total \in 1..MaxTrades :
        \E wins \in 0..total :
            InitDirect("t.csv",
                Csv(TradeColumns,
                    [i \in 1..total |->
                        TradeRow(Stamp(7, 0), "Entry long",
                                 IF i <= wins THEN 100 ELSE 0)]))

SpecRate == InitRate /\ [][NextPipeline]_vars

C3_RowConsistent ==
    StatsReady =>
        \A i \in 1..Len(cycle_stats) :
            LET row == cycle_stats[i]
                positive == Cardinality({k \in 1..Len(entries) :
                                /\ entries[k].cycle_num = row.cycle
                                /\ entries[k].pnl > 0})
            IN  /\ row.wins = positive
                /\ row.wins + row.losses = row.total_trades
                /\ row.win_rate = ExactRate(row.wins, row.total_trades, 1)

(***************************************************************************)
(* Workbooks and delimited text through process_file, with a second        *)
(* generate_report call after it and the wall clock moving                 *)
(***************************************************************************)
NextDirect == NextPipeline \/ Tick \/ Rerender

BookTrades ==
    [name |-> "List of trades", columns |-> TradeColumns,
     rows |-> <<TradeRow(Stamp(7, 0), "Entry long", 100),
                TradeRow(Stamp(8, 20), "Entry short", 0 - 50)>>]

PropsRow(columns, key, value) ==
    [c \in {columns[1], columns[2]} |-> IF c = columns[1] THEN key ELSE value]

PropsSheet(name, columns) ==
    [name |-> name, columns |-> columns,
     rows |-> <<PropsRow(columns, "Symbol", "ES"),
                PropsRow(columns, "Timeframe", "5")>>]

PropsNames == {"Properties", "properties", "Performance"}
PropsHeaders == {<<"name", "value">>, <<"Name", "Value">>, <<"NAME", "value">>,
                 <<"key", "value">>}

Books ==
    {[readable |-> TRUE, sheets |-> sheets] :
        sheets \in {<<BookTrades>>} \cup
            UNION {{<<BookTrades, PropsSheet(n, h)>>, <<PropsSheet(n, h), BookTrades>>} :
                       n \in PropsNames, h \in PropsHeaders}}

InitBooks ==
    \/ \E path \in {"book.xlsx", "book.XLS"}, content \in Books :
           InitDirect(path, content)
    \/ \E table \in {BookTrades} \cup {PropsSheet("", h) : h \in PropsHeaders} :
           InitDirect("book.csv", Csv(table.columns, table.rows))

SpecBooks == InitBooks /\ [][NextDirect]_vars

(***************************************************************************)
(* C9: rendering is idempotent but for the generation time of the footer.  *)
(* A second generate_report call with the same cycle stats, overall stats  *)
(* and metadata yields a report that differs from the first at most in the *)
(* generation time, and the very same report when the two calls fall in    *)
(* the same minute of the wall clock.                                      *)
(***************************************************************************)
FirstRendered == calls[Len(calls)].rendered

C9_SameButForGenerationTime ==
    pc = "rendered_twice" =>
        /\ [report2 EXCEPT !.generated = report.generated] = report
        /\ (FirstRendered \div 60 = clock \div 60) => report2 = report

\* two calls at different seconds of one minute
C9_Witness ==
    /\ pc = "rendered_twice"
    /\ FirstRendered # clock
    /\ FirstRendered \div 60 = clock \div 60
    /\ report2 = report

\* C9 as stated: the two reports are identical whatever the clock
C9_ByteIdentical == pc = "rendered_twice" => report2 = report

(***************************************************************************)
(* C10: load_data builds the metadata from the properties sheet of a       *)
(* workbook whenever that sheet has columns named "name" and "value"       *)
(* compared case-insensitively; otherwise, and for delimited text, the     *)
(* metadata is empty.                                                      *)
(***************************************************************************)
\* load_data has returned (line 415 is passed)
Loaded ==
    \/ pc \in {"pf_trades", "pf_stats", "pf_overall", "pf_report", "pf_open",
               "pf_write", "pf_summary"}
    \/ Succeeded

C10_Expected(path, content) ==
    LET sheets == content.sheets
        IsProps(i) == Contains("propert", Lower(sheets[i].name))
        Named(sheet, header) ==
            {i \in 1..Len(sheet.columns) : Lower(sheet.columns[i]) = header}
    IN  IF Lower(SplitExt(path)) = ".csv" \/ ~\E i \in 1..Len(sheets) : IsProps(i)
        THEN EmptyProps
        ELSE LET sheet == sheets[CHOOSE i \in 1..Len(sheets) :
                              IsProps(i) /\ \A j \in 1..(i - 1) : ~IsProps(j)]
             IN  IF Named(sheet, "name") = {} \/ Named(sheet, "value") = {}
                 THEN EmptyProps
                 ELSE LET nameCol  == sheet.columns[CHOOSE i \in Named(sheet, "name") : TRUE]
                          valueCol == sheet.columns[CHOOSE i \in Named(sheet, "value") : TRUE]
                      IN  [k \in {sheet.rows[i][nameCol] : i \in 1..Len(sheet.rows)} |->
                              sheet.rows[CHOOSE i \in 1..Len(sheet.rows) :
                                             sheet.rows[i][nameCol] = k][valueCol]]

C10_MetadataFromProperties ==
    Loaded => props = C10_Expected(filepath, files[filepath].content)

(***************************************************************************)
(* The watcher, in either mode, over a directory where files appear, grow  *)
(* and are removed, with at most one KeyboardInterrupt                     *)
(***************************************************************************)
Paths == {"a.csv", "b.XLSX", "n.txt"}
\* the files that come and go; n.txt is there all along
Incoming == {"a.csv", "b.XLSX"}

GoodTable    == Csv(TradeColumns, <<TradeRow(Stamp(7, 0), "Entry long", 100)>>)
\* no P&L column: the ValueError of line 122
NoPnlTable   == Csv(<<"Date/Time", "Type">>, <<TradeRow(Stamp(7, 0), "Entry long", 100)>>)
\* a date pd.to_datetime cannot parse: line 124 raises
BadDateTable == Csv(TradeColumns, <<TradeRow(BadStamp, "Entry long", 100)>>)
\* exit rows only: the ValueError of line 132
NoEntryTable == Csv(TradeColumns, <<TradeRow(Stamp(7, 0), "Exit long", 100)>>)

WatchContents == {GoodTable, NoPnlTable, BadDateTable, NoEntryTable}

Present(content) == [exists |-> TRUE, size |-> 1, content |-> content]

InitWatch ==
    /\ mode \in {"polling", "watchdog"}
    /\ changes = 0
    /\ \E old \in {Absent, Present(GoodTable)} :
          files = [p \in Paths |-> IF p = "a.csv" THEN old
                                    ELSE IF p = "n.txt" THEN Present(GoodTable)
                                    ELSE Absent]
    /\ outputs = [o \in {OutputFile(p) : p \in Paths} |-> NoFile]
    /\ processed_files = {}
    /\ existing = {}
    /\ pc = IF mode = "polling" THEN "startup" ELSE "idle"
    /\ main = IF mode = "polling" THEN "watching" ELSE "startup"
    /\ listing = {}
    /\ filepath = "a.csv"
    /\ size1 = 0 /\ size2 = 0
    /\ events = <<>>
    /\ interrupted = FALSE
    /\ clock = 0
    /\ df = NotSet /\ props = NotSet /\ entries = NoRows
    /\ cycle_stats = NoRows /\ overall_stats = NotSet /\ report = NotSet
    /\ report2 = NotSet
    /\ calls = <<>>

Environment ==
    \/ \E p \in Incoming, content \in WatchContents : CreateFile(p, content)
    \/ \E p \in Incoming : GrowFile(p)
    \/ \E p \in Incoming : DeleteFile(p)

Polling ==
    \/ PollStartup \/ PollScan \/ PollIter \/ PollSleep1 \/ PollSize1
    \/ PollSize2 \/ PollSleep2

Handler ==
    \/ Dispatch \/ CreatedSize1 \/ CreatedSize2 \/ CreatedProcess
    \/ ModifiedProcess

NextWatch ==
    \/ Environment
    \/ Polling
    \/ WatchdogStartup \/ Handler \/ WatchdogJoin
    \/ NextPipeline
    \/ PollInterrupt \/ WatchdogInterrupt

SpecWatch == InitWatch /\ [][NextWatch]_vars

(***************************************************************************)
(* C4: in both watcher modes a file's path is added to the already-seen    *)
(* set immediately before process_file is called for it, in the very step  *)
(* that makes the call, and it stays in the set whether process_file       *)
(* succeeds or fails.  But for the marking of the files found at startup,  *)
(* the set changes only by gaining the path at hand, which was not in it,  *)
(* as a call for that path starts; the path of every call, running or      *)
(* finished, is in the set; nothing ever leaves the set.                   *)
(***************************************************************************)
AtStartup == pc = "startup" \/ main = "startup"

C4_SeenAsProcessingStarts ==
    /\ [][(processed_files' # processed_files /\ ~AtStartup) =>
            /\ filepath \notin processed_files
            /\ processed_files' = processed_files \cup {filepath}
            /\ pc' = "pf_load"
            /\ calls' = Append(calls, calls'[Len(calls')])
            /\ calls'[Len(calls')].path = filepath
            /\ calls'[Len(calls')].result = Running]_vars
    /\ [][processed_files \subseteq processed_files']_vars
    /\ [](\A i \in 1..Len(calls) : calls[i].path \in processed_files)

\* process_file is at its first statement and the file is already marked
C4_Witness ==
    /\ mode \in {"polling", "watchdog"}
    /\ pc = "pf_load"
    /\ calls[Len(calls)].path = filepath
    /\ calls[Len(calls)].result = Running
    /\ filepath \in processed_files

\* C4 as stated: a path at which process_file is still at work is not yet in
\* the already-seen set
C4_SeenOnlyAfterFinished ==
    InProcessFile => filepath \notin processed_files

(***************************************************************************)
(* C5: the watcher passes a file to process_file only once two consecutive *)
(* size samples of it were equal, on every path to process_file: every     *)
(* call was preceded by two samples, and they were equal.                  *)
(***************************************************************************)
C5_OnlyStableFilesProcessed ==
    \A i \in 1..Len(calls) :
        /\ Len(calls[i].sizes) = 2
        /\ calls[i].sizes[1] = calls[i].sizes[2]

(***************************************************************************)
(* C6: a KeyboardInterrupt delivered at any point of the watch loop stops  *)
(* the loop: once it is delivered, main is no longer watching (it is at    *)
(* its shutdown message, or has stopped the observer and waits for it).    *)
(***************************************************************************)
C6_InterruptStopsLoop ==
    interrupted => main \in {"stopping", "goodbye"}

(***************************************************************************)
(* process_file on one file of any kind, over an output directory that may *)
(* hold an earlier report of the same name                                 *)
(***************************************************************************)
\* every trade outside the session: no cycle has a row and line 292 raises
OutOfRangeTable == Csv(TradeColumns, <<TradeRow(Stamp(16, 20), "Entry long", 100)>>)
\* no date or time column: the ValueError of line 101
NoDateTable == Csv(<<"Type", "Profit USD">>, <<TradeRow(Stamp(7, 0), "Entry long", 100)>>)

FileContents ==
    {GoodTable, NoPnlTable, BadDateTable, NoEntryTable, OutOfRangeTable,
     NoDateTable, Unreadable}

OldReport == FileOf(<<[generated |-> 0 - 1]>>)

InitFiles ==
    \E path \in {"t.csv", "t.xlsx", "t.XLS", "t.txt"}, content \in FileContents,
       old \in {NoFile, OldReport} :
        InitDirectOver(path, content, old)

SpecFiles == InitFiles /\ [][NextPipeline]_vars

(***************************************************************************)
(* C7: process_file writes the report only after loading, normalization,   *)
(* aggregation and rendering have all succeeded.  The output directory     *)
(* changes only at the open and the write that follow a successful         *)
(* rendering, and only for an input on which no stage raises; when a stage *)
(* raises, process_file returns False having touched no file; when none    *)
(* does, it returns True and the file holds the whole report.              *)
(***************************************************************************)
\* no stage of lines 415-426 raises on the file at hand
StagesSucceed ==
    /\ files[filepath].exists
    /\ LET loaded == LoadData(filepath, files[filepath].content)
       IN  /\ loaded.err = NoError
           /\ LET trades == ProcessTrades(loaded.val.df)
              IN  /\ trades.err = NoError
                  /\ GenerateReport(CalculateCycleStats(trades.val),
                                    CalculateOverallStats(trades.val),
                                    loaded.val.props, clock).err = NoError

Finished == pc = "returned"

C7_ReportWrittenLastOrNever ==
    /\ [][outputs' # outputs => (StagesSucceed /\ pc \in {"pf_open", "pf_write"})]_vars
    /\ [][(Finished' /\ ~Finished /\ calls'[Len(calls')].result = False) =>
            (outputs' = outputs /\ ~calls'[Len(calls')].wrote)]_vars
    /\ [](Finished =>
            IF StagesSucceed
            THEN /\ calls[Len(calls)].result = True
                 /\ outputs[OutputFile(filepath)] = FileOf(<<report>>)
            ELSE /\ calls[Len(calls)].result = False
                 /\ ~calls[Len(calls)].wrote)

\* the P&L column cannot be resolved: False is returned and the earlier
\* report of the same name is as it was
C7_Witness ==
    /\ Finished
    /\ files[filepath].content = NoPnlTable
    /\ SplitExt(filepath) = ".csv"
    /\ calls[Len(calls)].result = False
    /\ outputs[OutputFile(filepath)] = OldReport

(***************************************************************************)
(* C8: a failure while processing one file is non-fatal to the watch loop. *)
(* The step in which process_file returns False puts the watcher back in   *)
(* its loop (the next name of the scan, or the next event), with main and  *)
(* the already-seen set as they were and the failed file in that set; no   *)
(* path is ever passed to process_file twice; and while no interrupt has   *)
(* been delivered the watcher is still watching after any failure.         *)
(***************************************************************************)
Failed(i) == calls[i].result = False

C8_FailureIsNotFatal ==
    /\ [][(calls # <<>> /\ calls[Len(calls)].result = Running
             /\ Len(calls') = Len(calls) /\ calls'[Len(calls)].result = False) =>
            /\ pc' = (IF mode = "polling" THEN "iter" ELSE "idle")
            /\ main' = main
            /\ processed_files' = processed_files
            /\ calls[Len(calls)].path \in processed_files
            /\ UNCHANGED <<files, outputs, listing, events>>]_vars
    /\ [](\A i, j \in 1..Len(calls) : i # j => calls[i].path # calls[j].path)
    /\ []((~interrupted /\ \E i \in 1..Len(calls) : Failed(i)) =>
            (main = "watching" /\ pc # "exited"))

\* a file failed, and a file passed to process_file after it was processed
C8_Witness ==
    /\ mode \in {"polling", "watchdog"}
    /\ Len(calls) = 2
    /\ Failed(1)
    /\ calls[2].result = True
    /\ outputs[OutputFile(calls[2].path)].exists

(***************************************************************************)
(* C11: in any run of the watcher, in either mode and whatever files are   *)
(* created, grow or are removed, each path is passed to process_file at    *)
(* most once, and a supported file that was in the watch directory when    *)
(* the watcher started is never passed to process_file.                    *)
(***************************************************************************)
CallsFor(p) == {i \in 1..Len(calls) : calls[i].path = p}

C11_OncePerPathNeverExisting ==
    /\ \A p \in Paths : Cardinality(CallsFor(p)) <= 1
    /\ \A i \in 1..Len(calls) : calls[i].path \notin existing

\* watchdog mode: a file that was there at startup has grown since, the
\* event for it was taken and skipped, and another file was processed
C11_Witness ==
    /\ mode = "watchdog"
    /\ "a.csv" \in existing
    /\ files["a.csv"].exists /\ files["a.csv"].size > 1
    /\ events = <<>> /\ pc = "idle"
    /\ Len(calls) = 1
    /\ calls[1].path = "b.XLSX"
    /\ calls[1].result \in {True, False}

(***************************************************************************)
(* The polling watcher alone, with no interrupt, its scan loop scheduled   *)
(* fairly                                                                  *)
(***************************************************************************)
PollContents == {GoodTable, NoPnlTable}

InitPoll == InitWatch /\ mode = "polling"

PollEnvironment ==
    \/ \E p \in Incoming, content \in PollContents : CreateFile(p, content)
    \/ \E p \in Incoming : GrowFile(p)
    \/ \E p \in Incoming : DeleteFile(p)

ScanLoop == Polling \/ NextPipeline

NextPoll == PollEnvironment \/ ScanLoop

\* the loop's thread always has a step to take: the loop is at one of its
\* own statements, or process_file is at a stage, and no stage can block
ScanLoopEnabled ==
    \/ ENABLED Polling
    \/ ENABLED (PfLoad \/ PfReport \/ PfOpen \/ PfWrite \/ PfSummary)
    \/ pc \in {"pf_trades", "pf_stats", "pf_overall"}

\* lines 516-545: one thread runs the loop and process_file inside it, and
\* nothing but an interrupt stops it. As ScanLoopEnabled is invariant, weak
\* fairness of the whole loop, WF_vars(ScanLoop), is that it steps again and
\* again, which is how it is stated for the stages of process_file.
SpecPollFair ==
    InitPoll /\ [][NextPoll]_vars /\ WF_vars(Polling) /\ []<><<ScanLoop>>_vars

(***************************************************************************)
(* C12: in polling mode a new supported file whose two size samples differ *)
(* is not added to the already-seen set and is looked at again on a later  *)
(* scan; with the scan loop scheduled fairly and no interrupt, every new   *)
(* supported file is eventually passed to process_file unless it is        *)
(* removed (its size stops changing, sizes being bounded).                 *)
(***************************************************************************)
\* the second sample of p is about to be taken and will differ from the first
SamplesDiffer(p) ==
    /\ pc = "size2" /\ filepath = p
    /\ files[p].exists /\ size1 # files[p].size

\* p is in the directory, was not there at startup and is supported
NewFile(p) ==
    /\ pc # "startup"
    /\ files[p].exists /\ Supported(p) /\ p \notin existing

Passed(p) == CallsFor(p) # {}

C12_WritingFilesAreRetried ==
    /\ []ScanLoopEnabled
    /\ [][\A p \in Incoming :
            (SamplesDiffer(p) /\ pc' # pc) =>
                (processed_files' = processed_files /\ calls' = calls
                 /\ p \notin processed_files')]_vars
    /\ \A p \in Incoming :
          SamplesDiffer(p) ~>
              ((pc = "size1" /\ filepath = p) \/ Passed(p) \/ ~files[p].exists)
    /\ \A p \in Incoming :
          NewFile(p) ~> (Passed(p) \/ ~files[p].exists)

\* b.XLSX was created after startup and has grown once, nothing else has
\* happened to the directory; a scan sampled it while it grew and went on to
\* the next name, leaving it out of the already-seen set
C12_Witness ==
    /\ mode = "polling"
    /\ changes = 2
    /\ "b.XLSX" \notin existing
    /\ files["b.XLSX"].exists /\ files["b.XLSX"].size = 2
    /\ pc = "iter" /\ filepath = "b.XLSX"
    /\ "b.XLSX" \notin processed_files
    /\ calls = <<>>

=============================================================================
